---------------------------- MODULE Spec2Model ----------------------------
(***************************************************************************)
(* Plorth execution core: the string rope (simple / concat / substring),   *)
(* the context's data stack and error slot, and the string prototype's     *)
(* words, as a state machine.                                              *)
(*                                                                         *)
(* Representation.                                                         *)
(*  - A ref<value> is modelled by the node term it points to.  Nodes are   *)
(*    immutable, so "the same value" is equality of terms; a node built    *)
(*    around an operand (a substring or concat_string of it) is never      *)
(*    equal to the operand itself.                                         *)
(*  - string::size_type is an unsigned 64-bit integer.  A size_type value  *)
(*    v is held as its two's complement reading: v when v < 2^63 and       *)
(*    v - 2^64 otherwise.  Every magnitude of the model is far below 2^31, *)
(*    so + and - on these readings are exactly + and - modulo 2^64, a      *)
(*    negative reading is a wrapped value (at least 2^63), and the         *)
(*    conversions between size_type and std::int64_t are the identity.     *)
(*    Unsigned comparison is ULess.                                        *)
(*  - A read outside a simple_string's buffer is undefined behaviour: At   *)
(*    yields OOB for it, and the word that performed the read moves the    *)
(*    machine to ub = TRUE, where the run is followed no further.          *)
(*  - An object carries an id that stands for its identity as a reference: *)
(*    two objects built by two allocations differ even when their          *)
(*    properties are the same.                                             *)
(***************************************************************************)
EXTENDS Integers, Sequences, FiniteSets, TLC

VARIABLES data, err, ub, nwords, last, rt

vars == <<data, err, ub, nwords, last, rt>>

(***************************************************************************)
(* Bounds of the model.                                                    *)
(***************************************************************************)
\* longest string the host pushes
MaxLen == 2
\* number of word calls in one run
MaxWords == 2
\* deepest stack the host builds by pushing
MaxStack == 2
\* number of constructor and equals calls when the rope is built directly
MaxRopeOps == 2

\* number of word calls in one run over the whole prototype
MaxCalls == 1
\* operands the words of the prototype take at most (w_concat, w_repeat, w_get)
MaxArity == 2

\* code points the host's strings are made of: LF (white space and a line
\* separator) and 'a'
Chars == {10, 97}

\* code points of the runs over the whole prototype: LF, '1' and 'a'
Glyphs == {10, 49, 97}

\* longest string the host pushes for lines and for words
MaxLineLen == 4

\* code points of the strings lines is run on: LF, CR and 'a'
LineChars == {10, 13, 97}

\* code points of the strings words is run on: LF, space and 'a'
WordChars == {10, 32, 97}

\* integers the host pushes: every index in and around a pushed string
Ints == -(MaxLen + 1) .. (MaxLen + 1)

RECURSIVE SeqsUpTo(_)
SeqsUpTo(n) ==
  IF n = 0 THEN {<<>>}
  ELSE LET shorter == SeqsUpTo(n - 1)
       IN shorter \cup {Append(s, c) : s \in {t \in shorter : Len(t) = n - 1}, c \in Chars}

(***************************************************************************)
(* size_type arithmetic                                                    *)
(***************************************************************************)
\* a < b on two size_type values (unsigned)
ULess(a, b) ==
  IF (a < 0) = (b < 0) THEN a < b ELSE b < 0

\* the marker At yields for a read outside a buffer
OOB == -1

(***************************************************************************)
(* The rope                                                                *)
(***************************************************************************)
simple_string(chars) ==
  [type |-> "string", kind |-> "simple", chars |-> chars]

concat_string(left, right) ==
  [type |-> "string", kind |-> "concat", left |-> left, right |-> right]

\* substring that drops its offset
substring_no_offset(original, offset, length) ==
  [type |-> "string", kind |-> "slice",
   original |-> original, offset |-> 0, length |-> length]

substring(original, offset, length) ==
  [type |-> "string", kind |-> "slice",
   original |-> original, offset |-> offset, length |-> length]

RECURSIVE length(_)
length(s) ==
  CASE s.kind = "simple" -> Len(s.chars)
    [] s.kind = "concat" -> length(s.left) + length(s.right)
    [] s.kind = "slice" -> s.length

RECURSIVE At(_, _)
\* at() whose concat_string sends offset == left_length to the left child
At_left_inclusive(s, offset) ==
  CASE s.kind = "simple" ->
         IF 0 <= offset /\ offset < Len(s.chars) THEN s.chars[offset + 1] ELSE OOB
    [] s.kind = "concat" ->
         LET left_length == length(s.left)
         IN IF ~ULess(left_length, offset)
            THEN At(s.left, offset)
            ELSE At(s.right, offset - left_length)
    [] s.kind = "slice" -> At(s.original, s.offset + offset)

At(s, offset) ==
  CASE s.kind = "simple" ->
         IF 0 <= offset /\ offset < Len(s.chars) THEN s.chars[offset + 1] ELSE OOB
    [] s.kind = "concat" ->
         LET left_length == length(s.left)
         IN IF ULess(offset, left_length)
            THEN At(s.left, offset)
            ELSE At(s.right, offset - left_length)
    [] s.kind = "slice" -> At(s.original, s.offset + offset)

empty(s) == length(s) = 0

\* runtime::string(chars, length), runtime::number(int)
string(chars) == simple_string(chars)

number(n) == [type |-> "number", int |-> n]

array(elems) == [type |-> "array", elems |-> elems]

boolean(b) == [type |-> "boolean", value |-> b]

\* a null reference
Null == [type |-> "null"]

(***************************************************************************)
(* The context                                                             *)
(***************************************************************************)
NoError == [code |-> "none", message |-> <<>>]

error(code, message) == [code |-> code, message |-> message]

push(stack, value) == Append(stack, value)

Top(stack) == stack[Len(stack)]

Rest(stack) == SubSeq(stack, 1, Len(stack) - 1)

\* context::pop(slot, type): [ok, value, data, err]
pop(stack, e, type) ==
  IF Len(stack) = 0
  THEN [ok |-> FALSE, value |-> number(0), data |-> stack,
        err |-> error("range", <<"Stack underflow.">>)]
  ELSE IF Top(stack).type # type
  THEN [ok |-> FALSE, value |-> number(0), data |-> stack,
        err |-> error("type", <<"Expected ", type, ", got ", Top(stack).type, ".">>)]
  ELSE [ok |-> TRUE, value |-> Top(stack), data |-> Rest(stack), err |-> e]

pop_string(stack, e) == pop(stack, e, "string")

pop_number(stack, e) == pop(stack, e, "number")

(***************************************************************************)
(* Results of a word's computation: Ok(v), or Fault when the computation    *)
(* read outside a buffer.                                                  *)
(***************************************************************************)
Ok(v) == [fault |-> FALSE, val |-> v]

Fault == [fault |-> TRUE, val |-> <<>>]

\* unichar_isspace: the Unicode White_Space code points up to U+00A0
unichar_isspace(c) == c \in (9 .. 13) \cup {32, 133, 160}

\* string::to_string: at(i) for every i < length()
to_string(s) ==
  LET len == length(s)
  IN IF len < 0 THEN Fault
     ELSE LET result == [i \in 1 .. len |-> At(s, i - 1)]
          IN IF \E i \in 1 .. len : result[i] = OOB THEN Fault ELSE Ok(result)

\* equals that stops after comparing the lengths
equals_lengths_only(s, that) ==
  IF that = Null \/ that.type # "string" THEN Ok(FALSE)
  ELSE Ok(length(s) = length(that))

\* string::equals(that)
equals(s, that) ==
  LET len == length(s)
  IN IF that = Null \/ that.type # "string" THEN Ok(FALSE)
     ELSE IF len # length(that) THEN Ok(FALSE)
     ELSE IF len < 0 THEN Fault
     ELSE LET firstDiff == {i \in 0 .. len - 1 : At(s, i) # At(that, i)}
              firstOob == {i \in 0 .. len - 1 : At(s, i) = OOB \/ At(that, i) = OOB}
              Min(S) == CHOOSE m \in S : \A x \in S : m <= x
          IN IF firstOob # {} /\ (firstDiff = {} \/ Min(firstOob) <= Min(firstDiff))
             THEN Fault
             ELSE Ok(firstDiff = {})

(***************************************************************************)
(* The loops of the words, as the code runs them                           *)
(***************************************************************************)
\* w_trim, w_trim_left: for (i = 0; i < length; ++i) if (!isspace(at(i))) break;
RECURSIVE scan_left(_, _)
scan_left(str, i) ==
  IF ~ULess(i, length(str)) THEN Ok(i)
  ELSE LET c == At(str, i)
       IN IF c = OOB THEN Fault
          ELSE IF ~unichar_isspace(c) THEN Ok(i)
          ELSE scan_left(str, i + 1)

\* w_trim, w_trim_right: for (j = length; j != 0; --j) if (!isspace(at(j - 1))) break;
RECURSIVE scan_right(_, _)
scan_right(str, j) ==
  IF j = 0 THEN Ok(j)
  ELSE LET c == At(str, j - 1)
       IN IF c = OOB THEN Fault
          ELSE IF ~unichar_isspace(c) THEN Ok(j)
          ELSE scan_right(str, j - 1)

\* the value w_trim pushes
trim(str) ==
  LET len == length(str)
      i == scan_left(str, 0)
      j == scan_right(str, len)
  IN IF i.fault \/ j.fault THEN Fault
     ELSE IF i.val # 0 \/ j.val # len
          THEN Ok(substring(str, i.val, j.val - i.val))
          ELSE Ok(str)

\* trim_left whose slice keeps the length of the whole string
trim_left_full_length(str) ==
  LET len == length(str)
      i == scan_left(str, 0)
  IN IF i.fault THEN Fault
     ELSE IF i.val # 0
          THEN Ok(substring(str, i.val, len))
          ELSE Ok(str)

\* the value w_trim_left pushes
trim_left(str) ==
  LET len == length(str)
      i == scan_left(str, 0)
  IN IF i.fault THEN Fault
     ELSE IF i.val # 0
          THEN Ok(substring(str, i.val, len - i.val))
          ELSE Ok(str)

\* the value w_trim_right pushes
trim_right(str) ==
  LET len == length(str)
      i == scan_right(str, len)
  IN IF i.fault THEN Fault
     ELSE IF i.val # len
          THEN Ok(substring(str, 0, i.val))
          ELSE Ok(str)

\* w_words: the loop and the tail
RECURSIVE words_loop(_, _, _, _, _)
words_loop(str, i, begin, end, result) ==
  IF ~ULess(i, length(str))
  THEN Ok(IF ULess(0, end - begin)
          THEN Append(result, substring(str, begin, end - begin))
          ELSE result)
  ELSE LET c == At(str, i)
       IN IF c = OOB THEN Fault
          ELSE IF unichar_isspace(c)
          THEN words_loop(str, i + 1, i + 1, i + 1,
                          IF ULess(0, end - begin)
                          THEN Append(result, substring(str, begin, end - begin))
                          ELSE result)
          ELSE words_loop(str, i + 1, begin, end + 1, result)

\* words that gives the whole string as its one element
words_unsplit(str) == Ok(<<substring(str, 0, length(str))>>)

words(str) == words_loop(str, 0, 0, 0, <<>>)

\* w_lines: the loop and the tail
RECURSIVE lines_loop(_, _, _, _, _)
lines_loop(str, i, begin, end, result) ==
  IF ~ULess(i, length(str))
  THEN Ok(IF ULess(0, end - begin)
          THEN Append(result, substring(str, begin, end - begin))
          ELSE result)
  ELSE LET c == At(str, i)
       IN IF c = OOB THEN Fault
          ELSE IF ULess(i + 1, length(str)) /\ c = 13 /\ At(str, i + 1) = OOB
          THEN Fault
          ELSE IF ULess(i + 1, length(str)) /\ c = 13 /\ At(str, i + 1) = 10
          THEN lines_loop(str, i + 2, i + 2, i + 2,
                          Append(result, substring(str, begin, end - begin)))
          ELSE IF c = 10 \/ c = 13
          THEN lines_loop(str, i + 1, i + 1, i + 1,
                          Append(result, substring(str, begin, end - begin)))
          ELSE lines_loop(str, i + 1, begin, end + 1, result)

\* lines that splits at white space and emits no empty line
lines_by_white_space(str) == words_loop(str, 0, 0, 0, <<>>)

lines(str) == lines_loop(str, 0, 0, 0, <<>>)

\* reverse that copies the code points in their order
reverse_in_order(str) == to_string(str)

\* w_reverse: result[length - i] = at(i - 1) for i = length .. 1
reverse(str) ==
  LET len == length(str)
  IN IF len < 0 THEN Fault
     ELSE LET result == [k \in 1 .. len |-> At(str, len - k)]
          IN IF \E k \in 1 .. len : result[k] = OOB THEN Fault ELSE Ok(result)

\* w_repeat: the code points appended to result
RECURSIVE repeat_loop(_, _, _)
repeat_loop(str, count, result) ==
  IF count > 0
  THEN LET once == to_string(str)
       IN IF once.fault THEN Fault ELSE repeat_loop(str, count - 1, result \o once.val)
  ELSE Ok(result)

\* repeat without the absolute value
repeat_signed(str, n) == repeat_loop(str, n, <<>>)

\* repeat that copies the string once whatever the count
repeat_once(str, n) == repeat_loop(str, IF n = 0 THEN 0 ELSE 1, <<>>)

repeat(str, n) == repeat_loop(str, IF n < 0 THEN -n ELSE n, <<>>)

\* concat that builds a node whatever the lengths
concat_unchecked(a, b) == concat_string(b, a)

\* concat with the children the other way round
concat_swapped(a, b) ==
  IF empty(a) THEN b
  ELSE IF empty(b) THEN a
  ELSE concat_string(a, b)

\* w_concat: the value pushed for a (popped first) and b (popped second)
concat(a, b) ==
  IF empty(a) THEN b
  ELSE IF empty(b) THEN a
  ELSE concat_string(b, a)

\* get_index that leaves a negative index as it is
get_index_unadjusted(str, n) == n

\* w_get: index after the adjustment of a negative one
get_index(str, n) == IF n < 0 THEN n + length(str) ELSE n

\* w_get: the bounds test that sets the range error
get_out_of_bounds(str, index) == index < 0 \/ index > length(str)

\* the range error set before str is pushed back
get_failed_data_dropped(rest, str) == rest

\* w_get: the stack when the range error is set (str was pushed back before
\* the test)
get_failed_data(rest, str) == push(rest, str)

(***************************************************************************)
(* Character classes and conversions, on the Basic Latin block              *)
(***************************************************************************)
unichar_islower(c) == c \in 97 .. 122

unichar_isupper(c) == c \in 65 .. 90

unichar_toupper(c) == IF unichar_islower(c) THEN c - 32 ELSE c

unichar_tolower(c) == IF unichar_isupper(c) THEN c + 32 ELSE c

\* w_is_space: the loop over a string that is not empty
RECURSIVE is_space_loop(_, _)
is_space_loop(str, i) ==
  IF ~ULess(i, length(str)) THEN Ok(TRUE)
  ELSE LET c == At(str, i)
       IN IF c = OOB THEN Fault
          ELSE IF ~unichar_isspace(c) THEN Ok(FALSE)
          ELSE is_space_loop(str, i + 1)

\* is_space that runs the loop on the empty string too
is_space_vacuous(str) == is_space_loop(str, 0)

is_space(str) == IF length(str) = 0 THEN Ok(FALSE) ELSE is_space_loop(str, 0)

\* w_is_lower_case: the loop over a string that is not empty
RECURSIVE is_lower_case_loop(_, _)
is_lower_case_loop(str, i) ==
  IF ~ULess(i, length(str)) THEN Ok(TRUE)
  ELSE LET c == At(str, i)
       IN IF c = OOB THEN Fault
          ELSE IF ~unichar_islower(c) THEN Ok(FALSE)
          ELSE is_lower_case_loop(str, i + 1)

is_lower_case(str) ==
  IF length(str) = 0 THEN Ok(FALSE) ELSE is_lower_case_loop(str, 0)

\* w_is_upper_case: the loop over a string that is not empty
RECURSIVE is_upper_case_loop(_, _)
is_upper_case_loop(str, i) ==
  IF ~ULess(i, length(str)) THEN Ok(TRUE)
  ELSE LET c == At(str, i)
       IN IF c = OOB THEN Fault
          ELSE IF ~unichar_isupper(c) THEN Ok(FALSE)
          ELSE is_upper_case_loop(str, i + 1)

is_upper_case(str) ==
  IF length(str) = 0 THEN Ok(FALSE) ELSE is_upper_case_loop(str, 0)

\* w_chars: output[i] = string(&at(i), 1); a wrapped length cannot be reserved
chars(str) ==
  LET len == length(str)
  IN IF len < 0 THEN Fault
     ELSE IF \E i \in 1 .. len : At(str, i - 1) = OOB THEN Fault
     ELSE Ok([i \in 1 .. len |-> string(<<At(str, i - 1)>>)])

\* w_runes: output[i] = number(at(i))
runes(str) ==
  LET len == length(str)
  IN IF len < 0 THEN Fault
     ELSE IF \E i \in 1 .. len : At(str, i - 1) = OOB THEN Fault
     ELSE Ok([i \in 1 .. len |-> number(At(str, i - 1))])

\* w_upper_case: result[i] = unichar_toupper(at(i))
upper_case(str) ==
  LET len == length(str)
  IN IF len < 0 THEN Fault
     ELSE IF \E i \in 1 .. len : At(str, i - 1) = OOB THEN Fault
     ELSE Ok([i \in 1 .. len |-> unichar_toupper(At(str, i - 1))])

\* w_lower_case: result[i] = unichar_tolower(at(i))
lower_case(str) ==
  LET len == length(str)
  IN IF len < 0 THEN Fault
     ELSE IF \E i \in 1 .. len : At(str, i - 1) = OOB THEN Fault
     ELSE Ok([i \in 1 .. len |-> unichar_tolower(At(str, i - 1))])

\* w_swap_case: lower case code points to upper case, the others to lower case
swap_case(str) ==
  LET len == length(str)
  IN IF len < 0 THEN Fault
     ELSE IF \E i \in 1 .. len : At(str, i - 1) = OOB THEN Fault
     ELSE Ok([i \in 1 .. len |->
                LET c == At(str, i - 1)
                IN IF unichar_islower(c) THEN unichar_toupper(c)
                   ELSE unichar_tolower(c)])

\* w_capitalize: index 0 to upper case, the others to lower case
capitalize(str) ==
  LET len == length(str)
  IN IF len < 0 THEN Fault
     ELSE IF \E i \in 1 .. len : At(str, i - 1) = OOB THEN Fault
     ELSE Ok([i \in 1 .. len |->
                IF i - 1 = 0 THEN unichar_toupper(At(str, i - 1))
                ELSE unichar_tolower(At(str, i - 1))])

(***************************************************************************)
(* Decimal numbers in text: an optional sign, digits, and an optional      *)
(* fraction of a point and digits                                          *)
(***************************************************************************)
IsDigit(c) == c \in 48 .. 57

is_number(text) ==
  LET start == IF Len(text) > 0 /\ text[1] \in {43, 45} THEN 2 ELSE 1
      points == {i \in start .. Len(text) : text[i] = 46}
  IN /\ start <= Len(text)
     /\ \A i \in start .. Len(text) : IsDigit(text[i]) \/ text[i] = 46
     /\ Cardinality(points) <= 1
     /\ \A i \in points : start < i /\ i < Len(text)

\* the value of a run of decimal digits
RECURSIVE DigitsValue(_)
DigitsValue(digits) ==
  IF Len(digits) = 0 THEN 0
  ELSE 10 * DigitsValue(SubSeq(digits, 1, Len(digits) - 1))
       + (digits[Len(digits)] - 48)

\* the number a run of digits denotes.  The model's integers are 32 bits
\* wide where the program's are 64: a run of more than nine digits is held as
\* the value of its last nine digits and the value of the digits before them.
DigitsNumber(sign, digits) ==
  LET n == Len(digits)
  IN IF n <= 9 THEN number(sign * DigitsValue(digits))
     ELSE [type |-> "number",
           int |-> sign * DigitsValue(SubSeq(digits, n - 8, n)),
           high |-> sign * DigitsValue(SubSeq(digits, 1, n - 9))]

\* context::push_number(text): the number a text that is_number denotes; a
\* real keeps its integer part and the digits of its fraction
to_number(text) ==
  LET signed == text[1] \in {43, 45}
      body == IF signed THEN SubSeq(text, 2, Len(text)) ELSE text
      points == {i \in 1 .. Len(body) : body[i] = 46}
      sign == IF text[1] = 45 THEN -1 ELSE 1
  IN IF points = {}
     THEN DigitsNumber(sign, body)
     ELSE LET p == CHOOSE i \in points : TRUE
          IN [type |-> "number",
              whole |-> DigitsNumber(sign, SubSeq(body, 1, p - 1)),
              frac |-> SubSeq(body, p + 1, Len(body))]

(***************************************************************************)
(* The runtime: its global dictionary and its prototype members, as the    *)
(* constructor fills them.  pc counts the constructor's statements done.   *)
(***************************************************************************)
\* the members the prototype accessors return
AccessorNames ==
  {"array", "boolean", "error", "number", "object", "quote", "string",
   "symbol", "word"}

\* runtime::runtime: the prototypes it makes, in its order
ConstructedPrototypes ==
  <<"array", "boolean", "error", "number", "object", "quote", "string">>

\* identifiers a global built-in list may hold: a word of its own and names
\* that are type names as well
GlobalNames == {"dup", "array", "word"}

DictionaryNames == AccessorNames \cup GlobalNames

\* runtime::quote(native function): a primitive quote
quote(native) == [type |-> "quote", native |-> native]

object(id, properties) == [type |-> "object", id |-> id, properties |-> properties]

symbol(id) == [type |-> "symbol", id |-> id]

\* runtime::word(symbol, quote)
runtime_word(id) == [type |-> "word", symbol |-> symbol(id), quote |-> quote(id)]

\* the identifiers of api::<name>_prototype(); api::string_prototype is the
\* one of them in hand
Definition(name) ==
  IF name = "string"
  THEN {"length", "chars", "runes", "words", "lines", "space?", "lower-case?",
        "upper-case?", "reverse", "upper-case", "lower-case", "swap-case",
        "capitalize", "trim", "trim-left", "trim-right", ">number", "+", "*",
        "@"}
  ELSE {}

\* the runtime before the body of its constructor: every member a null
\* reference, the dictionary empty
fresh_runtime(globals) ==
  [pc |-> 0,
   globals |-> globals,
   dictionary |-> [n \in DictionaryNames |-> Null],
   prototypes |-> [n \in AccessorNames |-> Null]]

\* runtime::runtime: the loop over api::global_dictionary()
install_globals(r) ==
  [r EXCEPT !.pc = 1,
            !.dictionary = [n \in DictionaryNames |->
                              IF n \in r.globals THEN quote(n) ELSE Null]]

\* make_prototype(runtime, name, definition): the prototype object
prototype_object(name) ==
  object(<<name, "prototype">>,
         [w \in Definition(name) |-> quote(<<name, w>>)])

\* m_<name>_prototype = make_prototype(this, name, api::<name>_prototype())
make_prototype(r, name) ==
  [r EXCEPT !.pc = r.pc + 1,
            !.dictionary[name] =
               object(<<name>>, [p \in {"prototype"} |-> prototype_object(name)]),
            !.prototypes[name] = prototype_object(name)]

\* the constructor run to statement k of its prototypes
RECURSIVE make_prototypes(_, _)
make_prototypes(r, k) ==
  IF k = 0 THEN r
  ELSE make_prototype(make_prototypes(r, k - 1), ConstructedPrototypes[k])

\* runtime::runtime
runtime(globals) ==
  make_prototypes(install_globals(fresh_runtime(globals)),
                  Len(ConstructedPrototypes))

Constructed(r) == r.pc = 1 + Len(ConstructedPrototypes)

\* object::prototype(runtime): the own property __proto__ when there is one
object_prototype_of(r, value) ==
  IF "__proto__" \in DOMAIN value.properties
  THEN value.properties["__proto__"]
  ELSE r.prototypes["object"]

\* value::prototype_of(runtime, value)
prototype_of(r, value) ==
  CASE value.type = "null" -> r.prototypes["object"]
    [] value.type = "boolean" -> r.prototypes["boolean"]
    [] value.type = "number" -> r.prototypes["number"]
    [] value.type = "string" -> r.prototypes["string"]
    [] value.type = "array" -> r.prototypes["array"]
    [] value.type = "symbol" -> r.prototypes["symbol"]
    [] value.type = "quote" -> r.prototypes["quote"]
    [] value.type = "word" -> r.prototypes["word"]
    [] value.type = "error" -> r.prototypes["error"]
    [] value.type = "object" -> object_prototype_of(r, value)

Init ==
  /\ data = <<>>
  /\ err = NoError
  /\ ub = FALSE
  /\ nwords = 0
  /\ last = [word |-> "none", arg |-> <<>>, pre |-> <<>>, perr |-> NoError]
  /\ rt = runtime({})

(***************************************************************************)
(* The host: pushes the operands of a run, then calls words                 *)
(***************************************************************************)
HostPushString ==
  /\ ~ub
  /\ nwords = 0
  /\ Len(data) < MaxStack
  /\ \E text \in SeqsUpTo(MaxLen) : data' = push(data, string(text))
  /\ UNCHANGED <<rt, err, ub, nwords, last>>

HostPushInt ==
  /\ ~ub
  /\ nwords = 0
  /\ Len(data) < MaxStack
  /\ \E n \in Ints : data' = push(data, number(n))
  /\ UNCHANGED <<rt, err, ub, nwords, last>>

CanCall == ~ub /\ nwords < MaxWords

\* the state a word call leaves
Called(word, newData, newErr, newUb) ==
  /\ data' = newData
  /\ err' = newErr
  /\ ub' = newUb
  /\ nwords' = nwords + 1
  /\ last' = [word |-> word, arg |-> <<>>, pre |-> data, perr |-> err]
  /\ UNCHANGED rt

\* w_length that pushes whatever pop_string reported
w_length_unguarded ==
  /\ CanCall
  /\ LET p == pop_string(data, err)
     IN Called("length", push(p.data, number(0)), p.err, FALSE)

w_length ==
  /\ CanCall
  /\ LET p == pop_string(data, err)
     IN IF ~p.ok THEN Called("length", p.data, p.err, FALSE)
        ELSE Called("length", push(push(p.data, p.value), number(length(p.value))),
                    p.err, FALSE)

w_words ==
  /\ CanCall
  /\ LET p == pop_string(data, err)
         r == words(p.value)
     IN IF ~p.ok THEN Called("words", p.data, p.err, FALSE)
        ELSE IF r.fault THEN Called("words", p.data, p.err, TRUE)
        ELSE Called("words", push(push(p.data, p.value), array(r.val)), p.err, FALSE)

w_lines ==
  /\ CanCall
  /\ LET p == pop_string(data, err)
         r == lines(p.value)
     IN IF ~p.ok THEN Called("lines", p.data, p.err, FALSE)
        ELSE IF r.fault THEN Called("lines", p.data, p.err, TRUE)
        ELSE Called("lines", push(push(p.data, p.value), array(r.val)), p.err, FALSE)

w_reverse ==
  /\ CanCall
  /\ LET p == pop_string(data, err)
         r == reverse(p.value)
     IN IF ~p.ok THEN Called("reverse", p.data, p.err, FALSE)
        ELSE IF r.fault THEN Called("reverse", p.data, p.err, TRUE)
        ELSE Called("reverse", push(p.data, string(r.val)), p.err, FALSE)

w_trim ==
  /\ CanCall
  /\ LET p == pop_string(data, err)
         r == trim(p.value)
     IN IF ~p.ok THEN Called("trim", p.data, p.err, FALSE)
        ELSE IF r.fault THEN Called("trim", p.data, p.err, TRUE)
        ELSE Called("trim", push(p.data, r.val), p.err, FALSE)

w_trim_left ==
  /\ CanCall
  /\ LET p == pop_string(data, err)
         r == trim_left(p.value)
     IN IF ~p.ok THEN Called("trim-left", p.data, p.err, FALSE)
        ELSE IF r.fault THEN Called("trim-left", p.data, p.err, TRUE)
        ELSE Called("trim-left", push(p.data, r.val), p.err, FALSE)

w_trim_right ==
  /\ CanCall
  /\ LET p == pop_string(data, err)
         r == trim_right(p.value)
     IN IF ~p.ok THEN Called("trim-right", p.data, p.err, FALSE)
        ELSE IF r.fault THEN Called("trim-right", p.data, p.err, TRUE)
        ELSE Called("trim-right", push(p.data, r.val), p.err, FALSE)

w_concat ==
  /\ CanCall
  /\ LET pa == pop_string(data, err)
         pb == pop_string(pa.data, pa.err)
     IN IF ~pa.ok THEN Called("+", pa.data, pa.err, FALSE)
        ELSE IF ~pb.ok THEN Called("+", pb.data, pb.err, FALSE)
        ELSE Called("+", push(pb.data, concat(pa.value, pb.value)), pb.err, FALSE)

\* w_repeat that pushes the string back when pop_number fails
w_repeat_restoring ==
  /\ CanCall
  /\ LET ps == pop_string(data, err)
         pn == pop_number(ps.data, ps.err)
         r == repeat(ps.value, pn.value.int)
     IN IF ~ps.ok THEN Called("*", ps.data, ps.err, FALSE)
        ELSE IF ~pn.ok THEN Called("*", push(pn.data, ps.value), pn.err, FALSE)
        ELSE IF r.fault THEN Called("*", pn.data, pn.err, TRUE)
        ELSE Called("*", push(pn.data, string(r.val)), pn.err, FALSE)

w_repeat ==
  /\ CanCall
  /\ LET ps == pop_string(data, err)
         pn == pop_number(ps.data, ps.err)
         r == repeat(ps.value, pn.value.int)
     IN IF ~ps.ok THEN Called("*", ps.data, ps.err, FALSE)
        ELSE IF ~pn.ok THEN Called("*", pn.data, pn.err, FALSE)
        ELSE IF r.fault THEN Called("*", pn.data, pn.err, TRUE)
        ELSE Called("*", push(pn.data, string(r.val)), pn.err, FALSE)

w_get ==
  /\ CanCall
  /\ LET ps == pop_string(data, err)
         pn == pop_number(ps.data, ps.err)
         str == ps.value
         index == get_index(str, pn.value.int)
         c == At(str, index)
     IN IF ~ps.ok THEN Called("@", ps.data, ps.err, FALSE)
        ELSE IF ~pn.ok THEN Called("@", pn.data, pn.err, FALSE)
        ELSE IF get_out_of_bounds(str, index)
        THEN Called("@", get_failed_data(pn.data, str),
                    error("range", <<"String index out of bounds.">>), FALSE)
        ELSE IF c # OOB
        THEN Called("@", push(push(pn.data, str), string(<<c>>)), pn.err, FALSE)
        ELSE \E g \in Chars \cup {OOB} :
               Called("@",
                      IF g = OOB THEN push(pn.data, str)
                      ELSE push(push(pn.data, str), string(<<g>>)),
                      pn.err, TRUE)

w_is_space ==
  /\ CanCall
  /\ LET p == pop_string(data, err)
         r == is_space(p.value)
     IN IF ~p.ok THEN Called("space?", p.data, p.err, FALSE)
        ELSE IF r.fault THEN Called("space?", push(p.data, p.value), p.err, TRUE)
        ELSE Called("space?", push(push(p.data, p.value), boolean(r.val)),
                    p.err, FALSE)

w_is_lower_case ==
  /\ CanCall
  /\ LET p == pop_string(data, err)
         r == is_lower_case(p.value)
     IN IF ~p.ok THEN Called("lower-case?", p.data, p.err, FALSE)
        ELSE IF r.fault
        THEN Called("lower-case?", push(p.data, p.value), p.err, TRUE)
        ELSE Called("lower-case?", push(push(p.data, p.value), boolean(r.val)),
                    p.err, FALSE)

w_is_upper_case ==
  /\ CanCall
  /\ LET p == pop_string(data, err)
         r == is_upper_case(p.value)
     IN IF ~p.ok THEN Called("upper-case?", p.data, p.err, FALSE)
        ELSE IF r.fault
        THEN Called("upper-case?", push(p.data, p.value), p.err, TRUE)
        ELSE Called("upper-case?", push(push(p.data, p.value), boolean(r.val)),
                    p.err, FALSE)

\* w_chars that does not push the string back
w_chars_without_string ==
  /\ CanCall
  /\ LET p == pop_string(data, err)
         r == chars(p.value)
     IN IF ~p.ok THEN Called("chars", p.data, p.err, FALSE)
        ELSE IF r.fault THEN Called("chars", p.data, p.err, TRUE)
        ELSE Called("chars", push(p.data, array(r.val)), p.err, FALSE)

w_chars ==
  /\ CanCall
  /\ LET p == pop_string(data, err)
         r == chars(p.value)
     IN IF ~p.ok THEN Called("chars", p.data, p.err, FALSE)
        ELSE IF r.fault THEN Called("chars", p.data, p.err, TRUE)
        ELSE Called("chars", push(push(p.data, p.value), array(r.val)), p.err, FALSE)

w_runes ==
  /\ CanCall
  /\ LET p == pop_string(data, err)
         r == runes(p.value)
     IN IF ~p.ok THEN Called("runes", p.data, p.err, FALSE)
        ELSE IF r.fault THEN Called("runes", p.data, p.err, TRUE)
        ELSE Called("runes", push(push(p.data, p.value), array(r.val)), p.err, FALSE)

w_upper_case ==
  /\ CanCall
  /\ LET p == pop_string(data, err)
         r == upper_case(p.value)
     IN IF ~p.ok THEN Called("upper-case", p.data, p.err, FALSE)
        ELSE IF r.fault THEN Called("upper-case", p.data, p.err, TRUE)
        ELSE Called("upper-case", push(p.data, string(r.val)), p.err, FALSE)

w_lower_case ==
  /\ CanCall
  /\ LET p == pop_string(data, err)
         r == lower_case(p.value)
     IN IF ~p.ok THEN Called("lower-case", p.data, p.err, FALSE)
        ELSE IF r.fault THEN Called("lower-case", p.data, p.err, TRUE)
        ELSE Called("lower-case", push(p.data, string(r.val)), p.err, FALSE)

w_swap_case ==
  /\ CanCall
  /\ LET p == pop_string(data, err)
         r == swap_case(p.value)
     IN IF ~p.ok THEN Called("swap-case", p.data, p.err, FALSE)
        ELSE IF r.fault THEN Called("swap-case", p.data, p.err, TRUE)
        ELSE Called("swap-case", push(p.data, string(r.val)), p.err, FALSE)

w_capitalize ==
  /\ CanCall
  /\ LET p == pop_string(data, err)
         r == capitalize(p.value)
     IN IF ~p.ok THEN Called("capitalize", p.data, p.err, FALSE)
        ELSE IF r.fault THEN Called("capitalize", p.data, p.err, TRUE)
        ELSE Called("capitalize", push(p.data, string(r.val)), p.err, FALSE)

\* w_to_number that sets no error for a string that is no number
w_to_number_silent ==
  /\ CanCall
  /\ LET p == pop_string(data, err)
         str == to_string(p.value)
     IN IF ~p.ok THEN Called(">number", p.data, p.err, FALSE)
        ELSE IF str.fault THEN Called(">number", p.data, p.err, TRUE)
        ELSE IF is_number(str.val)
        THEN Called(">number", push(p.data, to_number(str.val)), p.err, FALSE)
        ELSE Called(">number", p.data, p.err, FALSE)

w_to_number ==
  /\ CanCall
  /\ LET p == pop_string(data, err)
         str == to_string(p.value)
     IN IF ~p.ok THEN Called(">number", p.data, p.err, FALSE)
        ELSE IF str.fault THEN Called(">number", p.data, p.err, TRUE)
        ELSE IF is_number(str.val)
        THEN Called(">number", push(p.data, to_number(str.val)), p.err, FALSE)
        ELSE Called(">number", p.data,
                    error("value", <<"Could not convert string to number.">>),
                    FALSE)

\* clear_error that leaves the slot as it is
clear_error_keeping ==
  /\ ~ub
  /\ err # NoError
  /\ err' = err
  /\ last' = [word |-> "clear_error", arg |-> <<>>, pre |-> data, perr |-> err]
  /\ UNCHANGED <<rt, data, ub, nwords>>

\* context::clear_error, called by the host between two words
clear_error ==
  /\ ~ub
  /\ err # NoError
  /\ err' = NoError
  /\ last' = [word |-> "clear_error", arg |-> <<>>, pre |-> data, perr |-> err]
  /\ UNCHANGED <<rt, data, ub, nwords>>

Next ==
  \/ HostPushString
  \/ HostPushInt
  \/ clear_error
  \/ w_length
  \/ w_words
  \/ w_lines
  \/ w_reverse
  \/ w_trim
  \/ w_trim_left
  \/ w_trim_right
  \/ w_concat
  \/ w_repeat
  \/ w_get

Spec == Init /\ [][Next]_vars

(***************************************************************************)
(* The rope classes on their own: the host lays out simple strings (and    *)
(* values that are no strings), then builds nodes on them with the         *)
(* constructors and compares them with string::equals.  data holds the     *)
(* values built so far, nwords counts the constructor and equals calls.    *)
(***************************************************************************)
RopeCalled(word, arg, newData) ==
  /\ data' = newData
  /\ nwords' = nwords + 1
  /\ last' = [word |-> word, arg |-> arg, pre |-> data, perr |-> err]
  /\ UNCHANGED <<rt, err, ub>>

RopeString ==
  /\ nwords = 0
  /\ Len(data) < MaxStack
  /\ \E text \in SeqsUpTo(MaxLen) : data' = push(data, string(text))
  /\ last' = [word |-> "string", arg |-> <<>>, pre |-> data, perr |-> err]
  /\ UNCHANGED <<rt, err, ub, nwords>>

\* a value that is no string: a number, or a null reference
RopeOther ==
  /\ nwords = 0
  /\ Len(data) < MaxStack
  /\ \E v \in {number(0), Null} : data' = push(data, v)
  /\ last' = [word |-> "other", arg |-> <<>>, pre |-> data, perr |-> err]
  /\ UNCHANGED <<rt, err, ub, nwords>>

RopeConcat ==
  /\ nwords < MaxRopeOps
  /\ Len(data) >= 2
  /\ Top(data).type = "string"
  /\ Top(Rest(data)).type = "string"
  /\ RopeCalled("concat_string", <<>>,
                push(Rest(Rest(data)), concat_string(Top(Rest(data)), Top(data))))

RopeSubstring ==
  /\ nwords < MaxRopeOps
  /\ Len(data) >= 1
  /\ Top(data).type = "string"
  /\ \E o \in 0 .. length(Top(data)) :
       \E l \in 0 .. length(Top(data)) - o :
         RopeCalled("substring", <<o, l>>,
                    push(Rest(data), substring(Top(data), o, l)))

\* this->equals(that): this is the string below the top, that is the top
RopeEquals ==
  /\ nwords < MaxRopeOps
  /\ Len(data) >= 2
  /\ Top(Rest(data)).type = "string"
  /\ ~equals(Top(Rest(data)), Top(data)).fault
  /\ RopeCalled("equals", <<>>,
                push(data, boolean(equals(Top(Rest(data)), Top(data)).val)))

RopeNext ==
  \/ RopeString
  \/ RopeOther
  \/ RopeConcat
  \/ RopeSubstring
  \/ RopeEquals

RopeSpec == Init /\ [][RopeNext]_vars

(***************************************************************************)
(* The whole string prototype: the host lays out at most one value that is *)
(* no operand (a boolean), then at most MaxArity operands, then calls any  *)
(* of the prototype's words.                                               *)
(***************************************************************************)
RECURSIVE GlyphSeqsUpTo(_)
GlyphSeqsUpTo(n) ==
  IF n = 0 THEN {<<>>}
  ELSE LET shorter == GlyphSeqsUpTo(n - 1)
       IN shorter \cup {Append(s, c) : s \in {t \in shorter : Len(t) = n - 1}, c \in Glyphs}

\* the operands laid out so far
Operands(stack) ==
  Len(stack) - (IF Len(stack) > 0 /\ stack[1].type = "boolean" THEN 1 ELSE 0)

ProtoPushBelow ==
  /\ ~ub
  /\ nwords = 0
  /\ data = <<>>
  /\ data' = push(data, boolean(TRUE))
  /\ UNCHANGED <<rt, err, ub, nwords, last>>

ProtoPushString ==
  /\ ~ub
  /\ nwords = 0
  /\ Operands(data) < MaxArity
  /\ \E text \in GlyphSeqsUpTo(MaxLen) : data' = push(data, string(text))
  /\ UNCHANGED <<rt, err, ub, nwords, last>>

ProtoPushInt ==
  /\ ~ub
  /\ nwords = 0
  /\ Operands(data) < MaxArity
  /\ \E n \in Ints : data' = push(data, number(n))
  /\ UNCHANGED <<rt, err, ub, nwords, last>>

ProtoCanCall == nwords < MaxCalls

ProtoNext ==
  \/ ProtoPushBelow
  \/ ProtoPushString
  \/ ProtoPushInt
  \/ ProtoCanCall /\ w_length
  \/ ProtoCanCall /\ w_is_space
  \/ ProtoCanCall /\ w_is_lower_case
  \/ ProtoCanCall /\ w_is_upper_case
  \/ ProtoCanCall /\ w_chars
  \/ ProtoCanCall /\ w_runes
  \/ ProtoCanCall /\ w_words
  \/ ProtoCanCall /\ w_lines
  \/ ProtoCanCall /\ w_reverse
  \/ ProtoCanCall /\ w_upper_case
  \/ ProtoCanCall /\ w_lower_case
  \/ ProtoCanCall /\ w_swap_case
  \/ ProtoCanCall /\ w_capitalize
  \/ ProtoCanCall /\ w_trim
  \/ ProtoCanCall /\ w_trim_left
  \/ ProtoCanCall /\ w_trim_right
  \/ ProtoCanCall /\ w_to_number
  \/ ProtoCanCall /\ w_concat
  \/ ProtoCanCall /\ w_repeat
  \/ ProtoCanCall /\ w_get

ProtoSpec == Init /\ [][ProtoNext]_vars

(***************************************************************************)
(* lines on its own: the host pushes one or two strings of LF, CR and 'a', *)
(* joins them with + or not, and calls lines.                              *)
(***************************************************************************)
RECURSIVE LineSeqsUpTo(_)
LineSeqsUpTo(n) ==
  IF n = 0 THEN {<<>>}
  ELSE LET shorter == LineSeqsUpTo(n - 1)
       IN shorter \cup {Append(s, c) : s \in {t \in shorter : Len(t) = n - 1}, c \in LineChars}

LinesPushString ==
  /\ ~ub
  /\ nwords = 0
  /\ Len(data) < MaxArity
  /\ \E text \in LineSeqsUpTo(MaxLineLen) : data' = push(data, string(text))
  /\ UNCHANGED <<rt, err, ub, nwords, last>>

LinesNext ==
  \/ LinesPushString
  \/ w_concat
  \/ w_lines

LinesSpec == Init /\ [][LinesNext]_vars

(***************************************************************************)
(* words on its own: the host pushes one or two strings of LF, space and   *)
(* 'a', joins them with + or not, and calls words.                         *)
(***************************************************************************)
RECURSIVE WordSeqsUpTo(_)
WordSeqsUpTo(n) ==
  IF n = 0 THEN {<<>>}
  ELSE LET shorter == WordSeqsUpTo(n - 1)
       IN shorter \cup {Append(s, c) : s \in {t \in shorter : Len(t) = n - 1}, c \in WordChars}

WordsPushString ==
  /\ ~ub
  /\ nwords = 0
  /\ Len(data) < MaxArity
  /\ \E text \in WordSeqsUpTo(MaxLineLen) : data' = push(data, string(text))
  /\ UNCHANGED <<rt, err, ub, nwords, last>>

WordsNext ==
  \/ WordsPushString
  \/ w_concat
  \/ w_words

WordsSpec == Init /\ [][WordsNext]_vars

(***************************************************************************)
(* The class predicates on their own: the host pushes one or two strings   *)
(* of LF, 'A' and 'a', joins them with + or not, and calls space?,         *)
(* lower-case? or upper-case?.                                             *)
(***************************************************************************)
\* code points of the strings the class predicates are run on
ClassChars == {10, 65, 97}

RECURSIVE ClassSeqsUpTo(_)
ClassSeqsUpTo(n) ==
  IF n = 0 THEN {<<>>}
  ELSE LET shorter == ClassSeqsUpTo(n - 1)
       IN shorter \cup {Append(s, c) : s \in {t \in shorter : Len(t) = n - 1}, c \in ClassChars}

ClassPushString ==
  /\ ~ub
  /\ nwords = 0
  /\ Len(data) < MaxArity
  /\ \E text \in ClassSeqsUpTo(MaxLen) : data' = push(data, string(text))
  /\ UNCHANGED <<rt, err, ub, nwords, last>>

ClassNext ==
  \/ ClassPushString
  \/ w_concat
  \/ w_is_space
  \/ w_is_lower_case
  \/ w_is_upper_case

ClassSpec == Init /\ [][ClassNext]_vars

(***************************************************************************)
(* The runtime on its own: it is constructed over some global built-in     *)
(* list, statement by statement, and prototype_of is called on it once it  *)
(* is constructed.                                                         *)
(***************************************************************************)
\* an error value, an object without and objects with a __proto__ property
ErrorValue == [type |-> "error", code |-> "range", message |-> <<>>]

PlainObject == object(<<"plain">>, <<>>)

ObjectWithProto(proto) ==
  object(<<"child">>, [p \in {"__proto__"} |-> proto])

\* one value of each of the ten tags, and the objects
TaggedValues ==
  {Null, boolean(TRUE), number(0), string(<<97>>), array(<<>>), symbol("dup"),
   quote("dup"), runtime_word("dup"), ErrorValue, PlainObject,
   ObjectWithProto(PlainObject), ObjectWithProto(prototype_object("string"))}

RuntimeInit ==
  /\ data = <<>>
  /\ err = NoError
  /\ ub = FALSE
  /\ nwords = 0
  /\ last = [word |-> "none", arg |-> <<>>, pre |-> <<>>, perr |-> NoError]
  /\ \E globals \in SUBSET GlobalNames : rt = fresh_runtime(globals)

RuntimeInstallGlobals ==
  /\ rt.pc = 0
  /\ rt' = install_globals(rt)
  /\ UNCHANGED <<data, err, ub, nwords, last>>

RuntimeMakePrototype ==
  /\ rt.pc >= 1
  /\ ~Constructed(rt)
  /\ rt' = make_prototype(rt, ConstructedPrototypes[rt.pc])
  /\ UNCHANGED <<data, err, ub, nwords, last>>

\* prototype_of(runtime, value): last.arg holds the value and the result
RuntimePrototypeOf ==
  /\ Constructed(rt)
  /\ \E value \in TaggedValues :
       last' = [word |-> "prototype_of",
                arg |-> <<value, prototype_of(rt, value)>>,
                pre |-> data, perr |-> err]
  /\ UNCHANGED <<data, err, ub, nwords, rt>>

RuntimeNext ==
  \/ RuntimeInstallGlobals
  \/ RuntimeMakePrototype
  \/ RuntimePrototypeOf

RuntimeSpec == RuntimeInit /\ [][RuntimeNext]_vars

(***************************************************************************)
(* Reference notions the properties are stated with                        *)
(***************************************************************************)
\* every substring node inside s lies within its original
RECURSIVE WellFormed(_)
WellFormed(s) ==
  CASE s.kind = "simple" -> TRUE
    [] s.kind = "concat" -> WellFormed(s.left) /\ WellFormed(s.right)
    [] s.kind = "slice" ->
         /\ WellFormed(s.original)
         /\ 0 <= s.offset
         /\ 0 <= s.length
         /\ s.offset + s.length <= length(s.original)

\* the code points a well-formed string denotes
RECURSIVE Flat(_)
Flat(s) ==
  CASE s.kind = "simple" -> s.chars
    [] s.kind = "concat" -> Flat(s.left) \o Flat(s.right)
    [] s.kind = "slice" -> SubSeq(Flat(s.original), s.offset + 1, s.offset + s.length)

\* the string nodes a value holds: a string's own nodes, an array's elements'
RECURSIVE StringNodes(_)
StringNodes(v) ==
  CASE v.type = "array" -> UNION {StringNodes(v.elems[i]) : i \in DOMAIN v.elems}
    [] v.type = "string" /\ v.kind = "simple" -> {v}
    [] v.type = "string" /\ v.kind = "concat" ->
         {v} \cup StringNodes(v.left) \cup StringNodes(v.right)
    [] v.type = "string" /\ v.kind = "slice" -> {v} \cup StringNodes(v.original)
    [] OTHER -> {}

\* a + b <= c on the mathematical values of three size_type readings: a
\* negative reading r stands for 2^64 + r, and every |r| is far below 2^63
MathSumLeq(a, b, c) ==
  LET high(r) == IF r < 0 THEN 1 ELSE 0
  IN \/ high(a) + high(b) < high(c)
     \/ high(a) + high(b) = high(c) /\ a + b <= c

\* seq repeated m times
Repeated(seq, m) ==
  [k \in 1 .. m * Len(seq) |-> seq[((k - 1) % Len(seq)) + 1]]

Abs(n) == IF n < 0 THEN -n ELSE n

\* the two operands before the last call: Under the one below the top
LastTop == Top(last.pre)

LastUnder == Top(Rest(last.pre))

LastBelow == Rest(Rest(last.pre))

\* the last call found a string on top / a number on top of a string /
\* a string on top of a number / two strings
LastHadString == Len(last.pre) >= 1 /\ LastTop.type = "string"

LastHadStringNumber ==
  Len(last.pre) >= 2 /\ LastUnder.type = "string" /\ LastTop.type = "number"

LastHadNumberString ==
  Len(last.pre) >= 2 /\ LastUnder.type = "number" /\ LastTop.type = "string"

LastHadStringString ==
  Len(last.pre) >= 2 /\ LastUnder.type = "string" /\ LastTop.type = "string"

RangeError == error("range", <<"String index out of bounds.">>)

(***************************************************************************)
(* Properties                                                              *)
(***************************************************************************)
\* C1: whenever trim has acted on a string s, exactly one of these holds: the
\* value it pushed is s itself, or the value it pushed is shorter than s.
C1_TrimSameOrShorter ==
  (last.word = "trim" /\ LastHadString /\ ~ub) =>
    ((Top(data) = LastTop) # ULess(length(Top(data)), length(LastTop)))

\* C2: every substring node held anywhere on the data stack (in a string, in
\* a rope below it, in an array) has offset + length <= original.length() as
\* mathematical integers.
C2_SliceWithinOriginal ==
  \A i \in DOMAIN data :
    \A nd \in StringNodes(data[i]) :
      nd.kind = "slice" => MathSumLeq(nd.offset, nd.length, length(nd.original))

\* C3: when @ is called on a string s of length n and an index k outside
\* -n <= k < n (k == n included), it sets the range error "String index out of
\* bounds.", reads nothing outside s and pushes no character: s stays on top.
C3_GetRejectsEveryOutOfRange ==
  (/\ last.word = "@"
   /\ LastHadNumberString
   /\ WellFormed(LastTop)
   /\ ~(-length(LastTop) <= LastUnder.int /\ LastUnder.int < length(LastTop)))
  => (~ub /\ err = RangeError /\ Top(data) = LastTop)

\* C4 as stated: with s pushed first and the index k on top, -len(s) <= k <
\* len(s), @ sets no error and leaves s with the one-code-point string of
\* s.at(k) (s.at(len(s) + k) for k < 0) on top of it.
C4_GetIndexOnTop ==
  (/\ last.word = "@"
   /\ LastHadStringNumber
   /\ WellFormed(LastUnder)
   /\ -length(LastUnder) <= LastTop.int
   /\ LastTop.int < length(LastUnder))
  => LET s == LastUnder
         k == LastTop.int
         at == IF k >= 0 THEN k ELSE length(s) + k
     IN /\ ~ub
        /\ err = last.perr
        /\ data = push(push(LastBelow, s), string(<<Flat(s)[at + 1]>>))

\* C4 amended: with the index k pushed first and s on top, s a string that
\* keeps the slice invariant, -len(s) <= k < len(s), @ leaves the error slot
\* as it was and leaves s with the one-code-point string of s.at(k)
\* (s.at(len(s) + k) for k < 0) on top of it.
C4_GetStringOnTop ==
  (/\ last.word = "@"
   /\ LastHadNumberString
   /\ WellFormed(LastTop)
   /\ -length(LastTop) <= LastUnder.int
   /\ LastUnder.int < length(LastTop))
  => LET s == LastTop
         k == LastUnder.int
         at == IF k >= 0 THEN k ELSE length(s) + k
     IN /\ ~ub
        /\ err = last.perr
        /\ data = push(push(LastBelow, s), string(<<Flat(s)[at + 1]>>))

\* "hello" -1 @ in the code's order: a negative index, the last code point
C4_Witness ==
  /\ last.word = "@"
  /\ last.pre = <<number(-1), string(<<10, 97>>)>>
  /\ data = <<string(<<10, 97>>), string(<<97>>)>>
  /\ err = NoError

\* C5 as stated: with s pushed first and the count n on top, * sets no error
\* and leaves on top a string holding s repeated |n| times.
C5_RepeatCountOnTop ==
  (last.word = "*" /\ LastHadStringNumber /\ WellFormed(LastUnder))
  => /\ ~ub
     /\ err = last.perr
     /\ Top(data) = string(Repeated(Flat(LastUnder), Abs(LastTop.int)))

\* C5 amended: with the count n pushed first and s on top, s a string that
\* keeps the slice invariant, * leaves the error slot as it was and replaces
\* both by a string holding s repeated |n| times.
C5_RepeatStringOnTop ==
  (last.word = "*" /\ LastHadNumberString /\ WellFormed(LastTop))
  => /\ ~ub
     /\ err = last.perr
     /\ data = push(LastBelow, string(Repeated(Flat(LastTop), Abs(LastUnder.int))))

\* "ab" 3 * in the code's order
C5_Witness ==
  /\ last.word = "*"
  /\ last.pre = <<number(3), string(<<97, 10>>)>>
  /\ data = <<string(<<97, 10, 97, 10, 97, 10>>)>>
  /\ err = NoError

\* the last call was @ and took the branch that sets the range error
GetRangeFailed ==
  /\ last.word = "@"
  /\ LastHadNumberString
  /\ get_out_of_bounds(LastTop, get_index(LastTop, LastUnder.int))

\* C6 as stated: when @ fails on an index out of range the data stack is as
\* it was before the call, string and index both in place, and the error
\* slot holds the range error.
C6_GetFailureKeepsStack ==
  GetRangeFailed => (data = last.pre /\ err = RangeError)

\* C6 amended: when @ fails on an index out of range the index is consumed
\* and the string is back on top of what lay below the two operands (the
\* stack is one shorter), and the error slot holds the range error.
C6_GetFailureKeepsString ==
  GetRangeFailed =>
    (~ub /\ data = push(LastBelow, LastTop) /\ err = RangeError)

\* an index beyond the length, the error set, the index gone
C6_Witness ==
  /\ GetRangeFailed
  /\ LastUnder.int > length(LastTop)
  /\ length(LastTop) > 0
  /\ Len(data) = Len(last.pre) - 1
  /\ err = RangeError

\* C7: with x pushed first and y on top, + leaves the error slot as it was
\* and replaces both by one string of length len(x) + len(y); when x and y
\* keep the slice invariant its code points are those of x followed by those
\* of y.
C7_ConcatOrder ==
  (last.word = "+" /\ LastHadStringString)
  => /\ ~ub
     /\ err = last.perr
     /\ Len(data) = Len(last.pre) - 1
     /\ Rest(data) = LastBelow
     /\ Top(data).type = "string"
     /\ length(Top(data)) = length(LastUnder) + length(LastTop)
     /\ (WellFormed(LastUnder) /\ WellFormed(LastTop)) =>
          to_string(Top(data)) = Ok(Flat(LastUnder) \o Flat(LastTop))

\* two different non-empty strings joined into a concat node
C7_Witness ==
  /\ last.word = "+"
  /\ last.pre = <<string(<<97>>), string(<<10>>)>>
  /\ data = <<concat_string(string(<<97>>), string(<<10>>))>>
  /\ err = NoError

\* C8: a concat node of a and b, whatever their shapes, has length()
\* a.length() + b.length(), materialises to a's code points followed by b's,
\* and at(i) is a.at(i) for i < a.length() and b.at(i - a.length()) otherwise.
C8_ConcatNode ==
  last.word = "concat_string" =>
    LET a == LastUnder
        b == LastTop
        c == Top(data)
    IN /\ length(c) = Len(Flat(a)) + Len(Flat(b))
       /\ length(a) = Len(Flat(a))
       /\ length(b) = Len(Flat(b))
       /\ to_string(c) = Ok(Flat(a) \o Flat(b))
       /\ \A i \in 0 .. Len(Flat(a)) + Len(Flat(b)) - 1 :
            At(c, i) = IF i < Len(Flat(a)) THEN Flat(a)[i + 1]
                       ELSE Flat(b)[i - Len(Flat(a)) + 1]

\* a concat node of a simple string and a slice that starts inside its
\* original, neither empty
C8_Witness ==
  /\ last.word = "concat_string"
  /\ LastUnder.kind = "simple"
  /\ length(LastUnder) > 0
  /\ LastTop.kind = "slice"
  /\ LastTop.offset > 0
  /\ length(LastTop) > 0
  /\ Top(data) = concat_string(LastUnder, LastTop)

\* C9: a slice node (s, o, l) with 0 <= o <= o + l <= s.length(), whatever
\* the shape of s, has length() l and materialises to the code points of s at
\* positions o .. o + l - 1.
C9_SliceNode ==
  last.word = "substring" =>
    LET s == LastTop
        o == last.arg[1]
        l == last.arg[2]
        r == Top(data)
    IN /\ length(r) = l
       /\ to_string(r) = Ok(SubSeq(Flat(s), o + 1, o + l))
       /\ to_string(s) = Ok(Flat(s))

\* a slice that starts inside the left child of a concat node and ends
\* inside its right child
C9_Witness ==
  /\ last.word = "substring"
  /\ LastTop.kind = "concat"
  /\ last.arg = <<1, 2>>
  /\ length(LastTop.left) = 2
  /\ length(LastTop.right) = 2
  /\ Top(data) = substring(LastTop, 1, 2)

\* C10: s.equals(that) is true exactly when that is a string with the same
\* length and the same code point at every index, whatever the shapes of the
\* two; it is false for a null reference and for a value that is no string;
\* on two strings it gives the same answer both ways round.
C10_EqualsByContent ==
  last.word = "equals" =>
    LET s == LastUnder
        that == LastTop
    IN /\ Top(data) = boolean(/\ that # Null
                              /\ that.type = "string"
                              /\ Flat(s) = Flat(that))
       /\ (that # Null /\ that.type = "string") =>
            /\ equals(that, s) = equals(s, that)
            /\ equals(s, s) = Ok(TRUE)

\* a simple string found equal to a slice node, of a longer string, that
\* holds the same code point
C10_Witness ==
  /\ last.word = "equals"
  /\ LastUnder.kind = "simple"
  /\ LastTop.type = "string"
  /\ LastTop.kind = "slice"
  /\ LastTop.offset > 0
  /\ length(LastTop) = 1
  /\ Top(data) = boolean(TRUE)

StackUnderflow == error("range", <<"Stack underflow.">>)

TypeError(expected, actual) ==
  error("type", <<"Expected ", expected, ", got ", actual, ".">>)

\* the words that take one operand
SingleOperandWords ==
  {"length", "space?", "lower-case?", "upper-case?", "chars", "runes", "words",
   "lines", "reverse", "upper-case", "lower-case", "swap-case", "capitalize",
   "trim", "trim-left", "trim-right", ">number"}

\* the words that pop a second string
TwoStringWords == {"+"}

\* C11: a word of the string prototype called on an empty stack sets the
\* range error "Stack underflow." and one called with a value on top that is
\* no string sets the type error "Expected string, got <type of the top>.";
\* in both cases the data stack is exactly as it was before the call (for a
\* single-operand word: nothing popped, nothing pushed).  A second pop_string
\* that fails (the second operand of +) leaves the stack as the first pop left
\* it.
C11_PopFailureKeepsStack ==
  /\ (last.word \in SingleOperandWords \cup {"+", "*", "@"} /\ Len(last.pre) = 0)
       => (~ub /\ data = last.pre /\ err = StackUnderflow)
  /\ (/\ last.word \in SingleOperandWords \cup {"+", "*", "@"}
      /\ Len(last.pre) > 0
      /\ LastTop.type # "string")
       => (~ub /\ data = last.pre /\ err = TypeError("string", LastTop.type))
  /\ (/\ last.word \in TwoStringWords
      /\ Len(last.pre) > 1
      /\ LastTop.type = "string"
      /\ LastUnder.type # "string")
       => (~ub /\ data = Rest(last.pre) /\ err = TypeError("string", LastUnder.type))

\* length called with a number on top of a boolean: the type error names the
\* number, both values stay
C11_Witness ==
  /\ last.word = "length"
  /\ last.pre = <<boolean(TRUE), number(1)>>
  /\ data = last.pre
  /\ err = TypeError("string", "number")

\* the words that leave their string and push a result on top of it
QueryWords ==
  {"length", "space?", "lower-case?", "upper-case?", "chars", "runes", "words",
   "lines"}

\* the words that replace their string by a string
TransformWords ==
  {"reverse", "upper-case", "lower-case", "swap-case", "capitalize", "trim",
   "trim-left", "trim-right"}

\* the type of the result a query word pushes
QueryResultType(word) ==
  CASE word = "length" -> "number"
    [] word \in {"space?", "lower-case?", "upper-case?"} -> "boolean"
    [] OTHER -> "array"

\* C12: a word of the string prototype that succeeds (its operands are of
\* the types it pops, it sets no error and performs no read outside a buffer)
\* leaves the error slot and everything below its operands as they were and
\* changes the stack by its arity: a query word leaves the very string it
\* found and pushes one result on top (size + 1); a transformation word and
\* >number replace the string by one result (size unchanged); + and * replace
\* their two operands by one string (size - 1); @ replaces its two operands
\* by the string and a one-code-point string (size unchanged).
C12_SuccessFrame ==
  /\ (last.word \in QueryWords /\ LastHadString /\ ~ub)
       => /\ err = last.perr
          /\ Rest(data) = last.pre
          /\ Top(data).type = QueryResultType(last.word)
  /\ (last.word \in TransformWords /\ LastHadString /\ ~ub)
       => /\ err = last.perr
          /\ Len(data) = Len(last.pre)
          /\ Rest(data) = Rest(last.pre)
          /\ Top(data).type = "string"
  /\ (/\ last.word = ">number"
      /\ LastHadString
      /\ ~ub
      /\ is_number(to_string(LastTop).val))
       => /\ err = last.perr
          /\ Len(data) = Len(last.pre)
          /\ Rest(data) = Rest(last.pre)
          /\ Top(data).type = "number"
  /\ (last.word = "+" /\ LastHadStringString /\ ~ub)
       => /\ err = last.perr
          /\ Len(data) = Len(last.pre) - 1
          /\ Rest(data) = LastBelow
          /\ Top(data).type = "string"
  /\ (last.word = "*" /\ LastHadNumberString /\ ~ub)
       => /\ err = last.perr
          /\ Len(data) = Len(last.pre) - 1
          /\ Rest(data) = LastBelow
          /\ Top(data).type = "string"
  /\ (/\ last.word = "@"
      /\ LastHadNumberString
      /\ ~ub
      /\ ~get_out_of_bounds(LastTop, get_index(LastTop, LastUnder.int)))
       => /\ err = last.perr
          /\ Len(data) = Len(last.pre)
          /\ Rest(Rest(data)) = LastBelow
          /\ Top(Rest(data)) = LastTop
          /\ Top(data).type = "string"
          /\ length(Top(data)) = 1

\* chars on a string of two code points that lies on top of a boolean: the
\* boolean and the string stay, the array of two strings is on top
C12_Witness ==
  /\ last.word = "chars"
  /\ last.pre = <<boolean(TRUE), string(<<49, 97>>)>>
  /\ data = <<boolean(TRUE), string(<<49, 97>>),
              array(<<string(<<49>>), string(<<97>>)>>)>>
  /\ err = NoError

\* the index of the first LF or CR of seq, 0 when there is none
FirstSeparator(seq) ==
  LET seps == {i \in 1 .. Len(seq) : seq[i] \in {10, 13}}
  IN IF seps = {} THEN 0 ELSE CHOOSE i \in seps : \A j \in seps : i <= j

\* the lines of a sequence of code points: CR LF, a lone LF and a lone CR each
\* end a line, empty or not; what follows the last separator is a line only
\* when it is not empty
RECURSIVE RefLines(_)
RefLines(seq) ==
  LET p == FirstSeparator(seq)
  IN IF p = 0 THEN (IF seq = <<>> THEN <<>> ELSE <<seq>>)
     ELSE LET skip == IF seq[p] = 13 /\ p < Len(seq) /\ seq[p + 1] = 10
                      THEN 2 ELSE 1
          IN <<SubSeq(seq, 1, p - 1)>> \o RefLines(SubSeq(seq, p + skip, Len(seq)))

\* C13: lines on a string s, whatever its shape, sets no error and pushes on
\* top of s the array of the lines of s: CR LF, a lone LF and a lone CR each
\* end a line and emit it, empty or not, and the tail after the last
\* separator is emitted only when it is not empty.  Every element is a slice
\* node of s itself, lies within s, and holds neither CR nor LF.
C13_LinesSplit ==
  (last.word = "lines" /\ LastHadString)
  => LET s == LastTop
         expected == RefLines(Flat(s))
         result == Top(data)
     IN /\ ~ub
        /\ err = last.perr
        /\ Rest(data) = last.pre
        /\ result.type = "array"
        /\ Len(result.elems) = Len(expected)
        /\ \A k \in 1 .. Len(expected) :
             LET e == result.elems[k]
             IN /\ e.type = "string"
                /\ e.kind = "slice"
                /\ e.original = s
                /\ 0 <= e.offset
                /\ 0 <= e.length
                /\ e.offset + e.length <= length(s)
                /\ to_string(e) = Ok(expected[k])
                /\ \A i \in 1 .. Len(expected[k]) : expected[k][i] \notin {10, 13}

\* "a\na\r\na\ra" as a concat node whose halves part the CR from its LF: the
\* four lines "a", "a", "a", "a"
C13_Witness ==
  /\ last.word = "lines"
  /\ LastHadString
  /\ LastTop = concat_string(string(<<97, 10, 97, 13>>), string(<<10, 97, 13, 97>>))
  /\ Top(data) = array(<<substring(LastTop, 0, 1), substring(LastTop, 2, 1),
                         substring(LastTop, 5, 1), substring(LastTop, 7, 1)>>)

\* the strings of ws joined by a single space
RECURSIVE Join(_)
Join(ws) ==
  IF Len(ws) = 0 THEN <<>>
  ELSE IF Len(ws) = 1 THEN ws[1]
  ELSE ws[1] \o <<32>> \o Join(SubSeq(ws, 2, Len(ws)))

\* seq cut at each of its spaces: the one array of space-free strings whose
\* Join is seq
RECURSIVE SplitAtSpaces(_)
SplitAtSpaces(seq) ==
  LET spaces == {i \in 1 .. Len(seq) : seq[i] = 32}
  IN IF spaces = {} THEN <<seq>>
     ELSE LET p == CHOOSE i \in spaces : \A j \in spaces : i <= j
          IN <<SubSeq(seq, 1, p - 1)>> \o SplitAtSpaces(SubSeq(seq, p + 1, Len(seq)))

\* the maximal runs of code points of seq that are no white space
RECURSIVE RefWords(_)
RefWords(seq) ==
  LET blanks == {i \in 1 .. Len(seq) : unichar_isspace(seq[i])}
  IN IF blanks = {} THEN (IF seq = <<>> THEN <<>> ELSE <<seq>>)
     ELSE LET p == CHOOSE i \in blanks : \A j \in blanks : i <= j
          IN (IF p = 1 THEN <<>> ELSE <<SubSeq(seq, 1, p - 1)>>)
             \o RefWords(SubSeq(seq, p + 1, Len(seq)))

NoWhiteSpace(seq) == \A i \in 1 .. Len(seq) : ~unichar_isspace(seq[i])

\* words has acted on a string: s the string, ws the array whose join by
\* single spaces s holds, result the array pushed
WordsActed == last.word = "words" /\ LastHadString

\* every element of the array words pushed equals the element of ws at its
\* place, and the two arrays are of the same size
WordsGaveBack(ws) ==
  /\ Top(data).type = "array"
  /\ Len(Top(data).elems) = Len(ws)
  /\ \A k \in 1 .. Len(ws) : equals(Top(data).elems[k], string(ws[k])) = Ok(TRUE)

\* C14 as stated: for every non-empty array ws of strings without white
\* space, words on the join of ws by single spaces gives an array equal to ws
\* element by element.
C14_WordsOfJoin ==
  WordsActed =>
    LET ws == SplitAtSpaces(Flat(LastTop))
    IN (\A k \in 1 .. Len(ws) : NoWhiteSpace(ws[k]))
       => (Join(ws) = Flat(LastTop) /\ WordsGaveBack(ws))

\* C14 amended: for every non-empty array ws of non-empty strings without
\* white space, words on the join of ws by single spaces gives an array equal
\* to ws element by element; and on every string s words sets no error and
\* pushes on top of s the array of the maximal runs of s that hold no white
\* space, in order, each a non-empty slice node of s within s.
C14_WordsSplit ==
  WordsActed =>
    LET s == LastTop
        ws == SplitAtSpaces(Flat(s))
        expected == RefWords(Flat(s))
        result == Top(data)
    IN /\ (\A k \in 1 .. Len(ws) : NoWhiteSpace(ws[k]) /\ ws[k] # <<>>)
            => (Join(ws) = Flat(s) /\ WordsGaveBack(ws))
       /\ ~ub
       /\ err = last.perr
       /\ Rest(data) = last.pre
       /\ result.type = "array"
       /\ Len(result.elems) = Len(expected)
       /\ \A k \in 1 .. Len(expected) :
            LET e == result.elems[k]
            IN /\ e.type = "string"
               /\ e.kind = "slice"
               /\ e.original = s
               /\ 0 <= e.offset
               /\ 0 < e.length
               /\ e.offset + e.length <= length(s)
               /\ to_string(e) = Ok(expected[k])
               /\ NoWhiteSpace(expected[k])

\* "a aa a", three words joined by single spaces, as a concat node
C14_Witness ==
  /\ WordsActed
  /\ LastTop = concat_string(string(<<97, 32, 97>>), string(<<97, 32, 97>>))
  /\ WordsGaveBack(<<<<97>>, <<97, 97>>, <<97>>>>)

\* reverse has acted on a string s that keeps the slice invariant: it set no
\* error, and the string r it pushed has the length of s, has s.at(length-1-i)
\* at every index i, and is turned by a further reverse into a string that
\* equals s
ReverseHolds ==
  (last.word = "reverse" /\ LastHadString /\ WellFormed(LastTop))
  => LET s == LastTop
         r == Top(data)
         len == length(s)
     IN /\ ~ub
        /\ err = last.perr
        /\ Rest(data) = Rest(last.pre)
        /\ r.type = "string"
        /\ length(r) = len
        /\ \A i \in 0 .. len - 1 :
             /\ At(r, i) = At(s, len - 1 - i)
             /\ At(r, i) = Flat(s)[len - i]
        /\ ~reverse(r).fault
        /\ equals(string(reverse(r).val), s) = Ok(TRUE)

\* a call of reverse on the string the previous call of reverse pushed gives
\* a string that equals the operand of the first
ReverseTwiceStep ==
  (/\ last.word = "reverse"
   /\ LastHadString
   /\ WellFormed(LastTop)
   /\ nwords' = nwords + 1
   /\ last'.word = "reverse"
   /\ last'.pre = data)
  => (~ub' /\ equals(Top(data'), LastTop) = Ok(TRUE))

\* C15: for every string s that keeps the slice invariant, whatever its
\* shape, the empty string included, one reverse yields a string of the same
\* length whose code point at index i is s.at(length-1-i), and reverse applied
\* twice yields a string that equals s.
C15_ReverseInvolution == []ReverseHolds /\ [][ReverseTwiceStep]_vars

\* reverse of the concat node of "a" and LF
C15_Witness ==
  /\ last.word = "reverse"
  /\ LastHadString
  /\ LastTop = concat_string(string(<<97>>), string(<<10>>))
  /\ Top(data) = string(<<10, 97>>)

ValueError == error("value", <<"Could not convert string to number.">>)

\* seq is a decimal number: an optional sign, one digit or more, and
\* optionally a point followed by one digit or more
RefParses(seq) ==
  LET body == IF Len(seq) > 0 /\ seq[1] \in {43, 45} THEN Tail(seq) ELSE seq
  IN \E k \in 1 .. Len(body) :
       /\ \A i \in 1 .. k : body[i] \in 48 .. 57
       /\ \/ k = Len(body)
          \/ /\ k + 1 < Len(body)
             /\ body[k + 1] = 46
             /\ \A i \in k + 2 .. Len(body) : body[i] \in 48 .. 57

\* C16: >number on a string that keeps the slice invariant and is no decimal
\* number (digits followed by a letter, for one) sets the error slot to the
\* value error "Could not convert string to number." and pushes nothing; on a
\* string that is a decimal number it pushes exactly one value, the number,
\* in the place of the string and leaves the error slot as it was.
C16_ToNumber ==
  (last.word = ">number" /\ LastHadString /\ WellFormed(LastTop))
  => /\ ~ub
     /\ IF RefParses(Flat(LastTop))
        THEN /\ err = last.perr
             /\ Rest(data) = Rest(last.pre)
             /\ Len(data) = Len(last.pre)
             /\ Top(data).type = "number"
             /\ Top(data) = to_number(Flat(LastTop))
        ELSE /\ err = ValueError
             /\ data = Rest(last.pre)

\* "1a", a number followed by a letter: the value error, nothing pushed
C16_Witness ==
  /\ last.word = ">number"
  /\ last.pre = <<string(<<49, 97>>)>>
  /\ data = <<>>
  /\ err = ValueError

\* the error the last word call wrote, NoError when it wrote none: the
\* failure of its first pop (a string), of its second pop (a string for +, a
\* number for * and @), or the range error of @
WrittenError ==
  IF Len(last.pre) = 0 THEN StackUnderflow
  ELSE IF LastTop.type # "string" THEN TypeError("string", LastTop.type)
  ELSE IF last.word \notin {"+", "*", "@"} THEN NoError
  ELSE IF Len(last.pre) = 1 THEN StackUnderflow
  ELSE IF last.word = "+"
  THEN (IF LastUnder.type # "string" THEN TypeError("string", LastUnder.type)
        ELSE NoError)
  ELSE IF LastUnder.type # "number" THEN TypeError("number", LastUnder.type)
  ELSE IF last.word = "@"
          /\ get_out_of_bounds(LastTop, get_index(LastTop, LastUnder.int))
  THEN RangeError
  ELSE NoError

\* the slot in every state: empty in a fresh context and while the host only
\* pushes; empty after clear_error; after a word call the error that call
\* wrote, whatever was there before, or what was there before when the call
\* wrote none
ErrorSlotHolds ==
  /\ (last.word = "none") => (err = NoError)
  /\ (last.word = "clear_error") => (err = NoError /\ data = last.pre)
  /\ (last.word \notin {"none", "clear_error"}) =>
       (err = IF WrittenError = NoError THEN last.perr ELSE WrittenError)
  /\ (last.word \notin {"none", "clear_error"} /\ WrittenError # NoError) => ~ub

\* a step that changes the slot is a word call or clear_error; a push is not
ErrorSlotStep ==
  (err' # err) =>
    \/ nwords' = nwords + 1
    \/ (last'.word = "clear_error" /\ data' = data)

\* C17: the context holds one error slot.  A fresh context has no error;
\* after a word failed the slot reads back the error that word wrote, a later
\* failure replacing an earlier error; clear_error makes the slot read as no
\* error and changes nothing else; a failing word writes the slot and returns
\* normally; a push and a word whose pops succeed and that writes no error
\* leave the slot as it was.
C17_ErrorSlot == []ErrorSlotHolds /\ [][ErrorSlotStep]_vars

\* the underflow of + has replaced the range error an earlier @ had left
C17_Witness ==
  /\ last.word = "+"
  /\ last.perr = RangeError
  /\ err = StackUnderflow

\* the last call was prototype_of: its value and its result
PrototypeOfValue == last.arg[1]

PrototypeOfResult == last.arg[2]

\* C18: on a constructed runtime prototype_of gives, for a null reference,
\* the runtime's object prototype; for a boolean, number, string, array,
\* symbol, quote, word and error the prototype the runtime made for that
\* type; for an object its own __proto__ property when it has one and the
\* runtime's object prototype otherwise; and never a null reference.
C18_PrototypeOfTotal ==
  last.word = "prototype_of" =>
    LET v == PrototypeOfValue
        p == PrototypeOfResult
    IN /\ p # Null
       /\ (v.type = "null") => (p = prototype_object("object"))
       /\ (v.type \in AccessorNames \ {"object"}) => (p = prototype_object(v.type))
       /\ (v.type = "object" /\ "__proto__" \in DOMAIN v.properties)
            => (p = v.properties["__proto__"])
       /\ (v.type = "object" /\ "__proto__" \notin DOMAIN v.properties)
            => (p = prototype_object("object"))

\* C19: on a constructed runtime, whatever the global built-in list held,
\* the global dictionary has under each of the nine type names an object
\* whose prototype property is the very object the accessor of that type
\* returns, and that object is no null reference.
C19_TypeNameEntries ==
  Constructed(rt) =>
    \A name \in AccessorNames :
      /\ rt.prototypes[name] # Null
      /\ rt.dictionary[name] # Null
      /\ rt.dictionary[name].type = "object"
      /\ "prototype" \in DOMAIN rt.dictionary[name].properties
      /\ rt.dictionary[name].properties["prototype"] = rt.prototypes[name]

\* C20: in every state the words reach, no concat node on the data stack,
\* at any depth of a rope or inside an array, has a child of length 0; and +
\* on x below y pushes x itself when y is empty, y itself when x is empty,
\* and a new concat node of x and y only when neither is empty.
C20_NoEmptyConcatChild ==
  /\ \A i \in DOMAIN data :
       \A nd \in StringNodes(data[i]) :
         nd.kind = "concat" => (length(nd.left) # 0 /\ length(nd.right) # 0)
  /\ (last.word = "+" /\ LastHadStringString)
       => Top(data) = IF length(LastTop) = 0 THEN LastUnder
                      ELSE IF length(LastUnder) = 0 THEN LastTop
                      ELSE concat_string(LastUnder, LastTop)

\* + on "a" below an empty slice node (what trim-left leaves of a string of
\* white space): "a" itself is pushed, no node is built
C20_Witness ==
  /\ last.word = "+"
  /\ LastHadStringString
  /\ LastTop.kind = "slice"
  /\ length(LastTop) = 0
  /\ length(LastUnder) > 0
  /\ Top(data) = LastUnder


\* the class predicate a predicate word tests every code point with
ClassOf(word, c) ==
  CASE word = "space?" -> unichar_isspace(c)
    [] word = "lower-case?" -> unichar_islower(c)
    [] word = "upper-case?" -> unichar_isupper(c)

\* C21: space?, lower-case? and upper-case? called with a string s on top
\* leave the error slot and the stack as they were and push exactly one
\* boolean on top of s: true iff s is not empty and every code point of s is
\* of the word's class, hence false for the empty string.
C21_ClassPredicates ==
  (last.word \in {"space?", "lower-case?", "upper-case?"} /\ LastHadString)
  => LET s == Flat(LastTop)
     IN /\ ~ub
        /\ err = last.perr
        /\ data = push(last.pre,
                       boolean(s # <<>> /\ \A i \in DOMAIN s : ClassOf(last.word, s[i])))

\* upper-case? on the concat node of "A" and "A": true on top of the node
C21_Witness ==
  /\ last.word = "upper-case?"
  /\ LastHadString
  /\ LastTop = concat_string(string(<<65>>), string(<<65>>))
  /\ data = push(last.pre, boolean(TRUE))



\* the type of the second operand a two-operand word pops
SecondOperandType(word) == IF word = "+" THEN "string" ELSE "number"

\* the last call was +, * or @, its first pop found a string and its second
\* pop failed
SecondPopFailed ==
  /\ last.word \in {"+", "*", "@"}
  /\ LastHadString
  /\ (Len(last.pre) = 1 \/ LastUnder.type # SecondOperandType(last.word))

\* C22: when +, * or @ pops its string and the second typed pop fails, the
\* word sets that pop's error (stack underflow, or the type error naming the
\* expected type and the type found), pushes nothing and does not put the
\* first operand back: the stack is what lay below the first operand, one
\* shorter than before the call.
C22_SecondPopFailure ==
  SecondPopFailed =>
    /\ ~ub
    /\ data = Rest(last.pre)
    /\ Len(data) = Len(last.pre) - 1
    /\ err = IF Len(last.pre) = 1 THEN StackUnderflow
             ELSE TypeError(SecondOperandType(last.word), LastUnder.type)

\* * called with a string on top of a boolean: the string is gone, the
\* boolean stays, the type error names the number expected
C22_Witness ==
  /\ last.word = "*"
  /\ last.pre = <<boolean(TRUE), string(<<97>>)>>
  /\ data = <<boolean(TRUE)>>
  /\ err = TypeError("number", "boolean")


\* the last call was * and popped a string and a count
RepeatActed == last.word = "*" /\ LastHadNumberString

\* C23: when * has popped a string s and a count n and comes back (no read
\* outside a buffer), the error slot is as it was and the value on top is a
\* new simple string of length |n| * len(s) whose code point at index k is
\* s.at(k mod len(s)); the count -n gives the same result as n, and n = 0 or
\* an empty s gives the empty string.
C23_RepeatContent ==
  (RepeatActed /\ ~ub)
  => LET s == LastTop
         n == LastUnder.int
         r == Top(data)
     IN /\ err = last.perr
        /\ r.type = "string"
        /\ r.kind = "simple"
        /\ length(r) = Abs(n) * length(s)
        /\ \A k \in 0 .. length(r) - 1 : At(r, k) = At(s, k % length(s))
        /\ repeat(s, -n) = Ok(r.chars)
        /\ (n = 0 \/ length(s) = 0) => r = string(<<>>)

\* a slice of one code point repeated with the count -2
C23_Witness ==
  /\ RepeatActed
  /\ ~ub
  /\ last.pre = <<number(-2), substring(string(<<10, 97>>), 1, 1)>>
  /\ data = <<string(<<97, 97>>)>>


\* the indices of s that hold a code point which is no white space
NonSpaceAt(s) == {k \in 0 .. length(s) - 1 : ~unichar_isspace(At(s, k))}

\* the least and the greatest element of a non-empty set of indices
Least(S) == CHOOSE m \in S : \A x \in S : m <= x

Greatest(S) == CHOOSE m \in S : \A x \in S : x <= m

\* C24: trim-left called with a string s on top (s keeping the slice
\* invariant) reads nothing outside a buffer and replaces s by s itself when
\* s is empty or its first code point is no white space, and otherwise by the
\* slice of s that starts at the first index holding no white space and runs
\* to the end; trim-right replaces it by s itself when s is empty or its last
\* code point is no white space, and otherwise by the slice of s from 0 to one
\* past the last index holding no white space.  For an s of white space only
\* both give a slice of length zero with offset + length <= len(s).  The error
\* slot and the stack below s stay as they were.
C24_TrimLeftRight ==
  /\ (last.word = "trim-left" /\ LastHadString /\ WellFormed(LastTop))
       => LET s == LastTop
              len == length(s)
              keep == NonSpaceAt(s)
          IN /\ ~ub
             /\ err = last.perr
             /\ Rest(data) = Rest(last.pre)
             /\ Len(data) = Len(last.pre)
             /\ Top(data) =
                  IF len = 0 \/ 0 \in keep THEN s
                  ELSE IF keep = {} THEN substring(s, len, 0)
                  ELSE substring(s, Least(keep), len - Least(keep))
             /\ (len # 0 /\ keep = {}) =>
                  /\ Top(data).kind = "slice"
                  /\ Top(data).length = 0
                  /\ Top(data).offset + Top(data).length <= len
  /\ (last.word = "trim-right" /\ LastHadString /\ WellFormed(LastTop))
       => LET s == LastTop
              len == length(s)
              keep == NonSpaceAt(s)
          IN /\ ~ub
             /\ err = last.perr
             /\ Rest(data) = Rest(last.pre)
             /\ Len(data) = Len(last.pre)
             /\ Top(data) =
                  IF len = 0 \/ (len - 1) \in keep THEN s
                  ELSE IF keep = {} THEN substring(s, 0, 0)
                  ELSE substring(s, 0, Greatest(keep) + 1)
             /\ (len # 0 /\ keep = {}) =>
                  /\ Top(data).kind = "slice"
                  /\ Top(data).length = 0
                  /\ Top(data).offset + Top(data).length <= len

\* trim-left on two line feeds: the slice of length zero at offset 2
C24_Witness ==
  /\ last.word = "trim-left"
  /\ ~ub
  /\ last.pre = <<string(<<10, 10>>)>>
  /\ data = <<substring(string(<<10, 10>>), 2, 0)>>


\* C25: whenever trim has acted on a string s that keeps the slice invariant,
\* the value it pushed equals, by string equality (same length, same code
\* points), the value trim-right gives on the value trim-left gives on s; for
\* an s of white space only it is the empty string.
C25_TrimIsLeftThenRight ==
  (last.word = "trim" /\ LastHadString /\ WellFormed(LastTop))
  => LET s == LastTop
         l == trim_left(s)
         lr == trim_right(l.val)
     IN /\ ~ub
        /\ ~l.fault
        /\ ~lr.fault
        /\ Top(data).type = "string"
        /\ length(Top(data)) = length(lr.val)
        /\ equals(Top(data), lr.val) = Ok(TRUE)
        /\ (NonSpaceAt(s) = {}) => length(Top(data)) = 0
=============================================================================
